---- MODULE Spec2Model ----
(***************************************************************************)
(* Key keeper and secure signer of package keeper.                         *)
(*                                                                         *)
(* A byte string is the record [len, val]: its length in bytes and the     *)
(* big-endian integer it holds.  The elliptic-curve group of the crypto    *)
(* package is scaled down to the subgroup of order CurveN generated by     *)
(* CurveG in the integers modulo CurveP, and its ECDSA to DSA over that    *)
(* subgroup; the lengths (32-byte keys and digests, 65-byte public keys    *)
(* and signatures) are the real ones.                                      *)
(***************************************************************************)
EXTENDS Integers, Sequences, FiniteSets, TLC

VARIABLES
    signer,         \* the secureSigner the caller holds
    secureSign,     \* the SecureSign the caller holds
    generated,      \* identifiers the default keeper has generated
    pubSeen,        \* <<identifier, answer, asked before>> of the default keeper's GetPublicKey
    last,           \* outcome of the latest operation
    crashed,        \* the process died of a nil dereference or a corrupt call
    word,           \* the keeper field of the shared SecureSign, as two words
    pc,             \* where each caller of the shared SecureSign stands
    loc,            \* each caller's locals
    started,        \* calls started on the shared SecureSign
    defaultAssigns, \* lazy assignments of the default keeper completed
    installed       \* keeper of the latest SetKeeper, once it returned with no
                    \* other SetKeeper under way; "unset" before any SetKeeper

\* ------------------------------------------------------------------ bounds
MaxKeys   == 1      \* private keys the default keeper generates in a run
MaxDigest == 2      \* digests hold the values 0..MaxDigest
MaxPayload == 1     \* transactions hold the payloads 0..MaxPayload
NThreads  == 2      \* callers sharing one SecureSign
MaxCalls  == 3      \* calls started on the shared SecureSign in a run

\* ------------------------------------------------- crypto package (scaled)
CurveP == 11        \* field modulus
CurveN == 5         \* order of the group: private keys are 1..CurveN-1
CurveG == 3         \* generator of the subgroup of order CurveN
KeyLen == 32        \* bytes of a private key (BitSize/8)
DigestLength == 32  \* bytes of a digest
PubLen == 65        \* bytes of an uncompressed public key
SignatureLength == 65

NoErr == "nil"
ErrKeyLength == "invalid length, need 256 bits"
ErrKeyGeN    == "invalid private key, >=N"
ErrKeyZero   == "invalid private key, zero or negative"
ErrHashLen   == "hash is required to be exactly 32 bytes"
ErrRandom    == "entropy source failed"
ErrCast      == "cannot cast public key to ecsda public key"
ErrSigSize   == "wrong size for signature"
ErrCustom    == "custom keeper failure"

\* the errors ToECDSA gives for an identifier that is not a private key
InvalidKeyIdentifier == {ErrKeyLength, ErrKeyGeN, ErrKeyZero}

Bytes(l, v) == [len |-> l, val |-> v]
NilBytes == Bytes(0, 0)

\* a Go ([]byte, error) pair; nil marks the nil slice
Ok(b)   == [nil |-> FALSE, val |-> b, err |-> NoErr]
Fail(e) == [nil |-> TRUE, val |-> NilBytes, err |-> e]

RECURSIVE PowMod(_, _, _)
PowMod(b, e, m) == IF e = 0 THEN 1 % m ELSE (b * PowMod(b, e - 1, m)) % m

InvMod(x) == CHOOSE y \in 1..(CurveN - 1) : (x * y) % CurveN = 1

\* ScalarBaseMult: the public point of the private scalar d
ScalarBaseMult(d) == PowMod(CurveG, d, CurveP)

\* crypto.ToECDSA: strict length, then 0 < D < N, then the public point
crypto_ToECDSA(d) ==
    IF d.len # KeyLen THEN [ok |-> FALSE, D |-> 0, pub |-> 0, err |-> ErrKeyLength]
    ELSE IF d.val >= CurveN THEN [ok |-> FALSE, D |-> 0, pub |-> 0, err |-> ErrKeyGeN]
    ELSE IF d.val <= 0 THEN [ok |-> FALSE, D |-> 0, pub |-> 0, err |-> ErrKeyZero]
    ELSE [ok |-> TRUE, D |-> d.val, pub |-> ScalarBaseMult(d.val), err |-> NoErr]

\* crypto.FromECDSA: D padded to KeyLen bytes
crypto_FromECDSA(priv) == Bytes(KeyLen, priv.D)

\* crypto.FromECDSAPub: the uncompressed point
crypto_FromECDSAPub(pub) == Bytes(PubLen, pub)

\* crypto.GenerateKey: rnd is what the entropy source delivers, 0 for a
\* failed read, else the scalar drawn from 1..N-1
crypto_GenerateKey(rnd) ==
    IF rnd = 0 THEN [ok |-> FALSE, D |-> 0, pub |-> 0, err |-> ErrRandom]
    ELSE [ok |-> TRUE, D |-> rnd, pub |-> ScalarBaseMult(rnd), err |-> NoErr]

Entropy == 0..(CurveN - 1)

\* the nonce loop of the signature: try k, k+1, ... until r and s are nonzero
RECURSIVE SignWithNonce(_, _, _)
SignWithNonce(z, D, k) ==
    LET r == PowMod(CurveG, k, CurveP) % CurveN
        s == (InvMod(k) * (z + r * D)) % CurveN
    IN  IF r = 0 \/ s = 0
        THEN SignWithNonce(z, D, (k % (CurveN - 1)) + 1)
        ELSE <<r, s>>

\* crypto.Sign: the digest must be DigestLength bytes; deterministic nonce
crypto_Sign(digestHash, prv) ==
    IF digestHash.len # DigestLength THEN Fail(ErrHashLen)
    ELSE LET z  == digestHash.val % CurveN
             rs == SignWithNonce(z, prv.D, ((prv.D + z) % (CurveN - 1)) + 1)
         IN  Ok(Bytes(SignatureLength, rs[1] * CurveN + rs[2]))

\* crypto.VerifySignature(pubkey, digestHash, signature)
crypto_VerifySignature(pubkey, digestHash, sig) ==
    /\ pubkey.len = PubLen
    /\ digestHash.len = DigestLength
    /\ sig.len = SignatureLength
    /\ LET r == sig.val \div CurveN
           s == sig.val % CurveN
           z == digestHash.val % CurveN
       IN  /\ r \in 1..(CurveN - 1)
           /\ s \in 1..(CurveN - 1)
           /\ LET w  == InvMod(s)
                  u1 == (z * w) % CurveN
                  u2 == (r * w) % CurveN
              IN  ((PowMod(CurveG, u1, CurveP) * PowMod(pubkey.val, u2, CurveP))
                      % CurveP) % CurveN = r

\* ---------------------------------------------- types package (transactions)
SignerIds == {1, 2}      \* the chain ids of the signers a caller may supply

Tx(p) == [payload |-> p, signed |-> FALSE, sig |-> NilBytes, chain |-> 0]
NilTx == Tx(0)

\* a Go (*Transaction, error) pair
TxOk(t)   == [nil |-> FALSE, tx |-> t, err |-> NoErr]
TxFail(e) == [nil |-> TRUE, tx |-> NilTx, err |-> e]

\* Signer.Hash: the signing hash covers the payload and the chain id, never
\* the signature
Hash(s, tx) == Bytes(DigestLength, 2 * tx.payload + s)

\* Transaction.WithSignature: a copy of tx carrying sig under signer s
WithSignature(tx, s, sig) ==
    IF sig.len # SignatureLength THEN TxFail(ErrSigSize)
    ELSE TxOk([payload |-> tx.payload, signed |-> TRUE, sig |-> sig, chain |-> s])

\* --------------------------------------------------- defaultPrivateKeyKeeper
\* a keeper's answer: the ([]byte, error) pair and the crypto calls it made
Answer(r, lib) == [nil |-> r.nil, val |-> r.val, err |-> r.err, lib |-> lib]

\* variant: the identifier is D in its shortest form, not padded to KeyLen
GeneratePrivateKey_Unpadded(rnd) ==
    LET privateKey == crypto_GenerateKey(rnd)
    IN  IF ~privateKey.ok
        THEN Answer(Fail(privateKey.err), <<"GenerateKey">>)
        ELSE Answer(Ok(Bytes(1, privateKey.D)), <<"GenerateKey", "FromECDSA">>)

defaultPrivateKeyKeeper_GeneratePrivateKey(rnd) ==
    LET privateKey == crypto_GenerateKey(rnd)
    IN  IF ~privateKey.ok
        THEN Answer(Fail(privateKey.err), <<"GenerateKey">>)
        ELSE Answer(Ok(crypto_FromECDSA(privateKey)), <<"GenerateKey", "FromECDSA">>)

\* variant: the error of ToECDSA is dropped and the derivation goes on
GetPublicKey_IgnoresParseError(prvID) ==
    LET privateKey == crypto_ToECDSA(prvID)
    IN  Answer(Ok(crypto_FromECDSAPub(privateKey.pub)),
               <<"ToECDSA", "Public", "FromECDSAPub">>)

\* variant: the latest derived public key is kept and handed out again
GetPublicKey_Cached(prvID) ==
    LET privateKey == crypto_ToECDSA(prvID)
    IN  IF ~privateKey.ok
        THEN Answer(Fail(privateKey.err), <<"ToECDSA">>)
        ELSE IF last.op = "GetPublicKey" /\ ~last.panic /\ last.ret.err = NoErr
        THEN Answer(Ok(last.ret.val), <<"ToECDSA">>)
        ELSE Answer(Ok(crypto_FromECDSAPub(privateKey.pub)),
                    <<"ToECDSA", "Public", "FromECDSAPub">>)

defaultPrivateKeyKeeper_GetPublicKey(prvID) ==
    LET privateKey == crypto_ToECDSA(prvID)
        castOk     == TRUE   \* Public() of an ecdsa key is an *ecdsa.PublicKey
    IN  IF ~privateKey.ok
        THEN Answer(Fail(privateKey.err), <<"ToECDSA">>)
        ELSE IF ~castOk
        THEN Answer(Fail(ErrCast), <<"ToECDSA", "Public">>)
        ELSE Answer(Ok(crypto_FromECDSAPub(privateKey.pub)),
                    <<"ToECDSA", "Public", "FromECDSAPub">>)

\* variant: the digest is signed with its last byte altered
Sign_AltersDigest(data, prvID) ==
    LET prv == crypto_ToECDSA(prvID)
    IN  IF ~prv.ok
        THEN Answer(Fail(prv.err), <<"ToECDSA">>)
        ELSE LET sig == crypto_Sign(Bytes(data.len, data.val + 1), prv)
             IN  IF sig.err # NoErr
                 THEN Answer(Fail(sig.err), <<"ToECDSA", "Sign">>)
                 ELSE Answer(Ok(sig.val), <<"ToECDSA", "Sign">>)

defaultPrivateKeyKeeper_Sign(data, prvID) ==
    LET prv == crypto_ToECDSA(prvID)
    IN  IF ~prv.ok
        THEN Answer(Fail(prv.err), <<"ToECDSA">>)
        ELSE LET sig == crypto_Sign(data, prv)
             IN  IF sig.err # NoErr
                 THEN Answer(Fail(sig.err), <<"ToECDSA", "Sign">>)
                 ELSE Answer(Ok(sig.val), <<"ToECDSA", "Sign">>)

\* ------------------------------------------- PrivateKeyKeeper (the interface)
NilKeeper     == "nil"
defaultKeeper == "default"
CustomKeeper  == "custom"     \* a keeper substituted by the deployer
Keepers       == {defaultKeeper, CustomKeeper}

\* what a substituted keeper may answer: a 65-byte value, a short value, nil
\* without an error, an error, and an error together with a value
CustomAnswers ==
    { Answer(Ok(Bytes(SignatureLength, CurveN + 1)), <<>>),
      Answer(Ok(Bytes(10, 1)), <<>>),
      Answer([nil |-> TRUE, val |-> NilBytes, err |-> NoErr], <<>>),
      Answer(Fail(ErrCustom), <<>>),
      Answer([nil |-> FALSE, val |-> Bytes(10, 1), err |-> ErrCustom], <<>>) }

\* dynamic dispatch of the three interface methods
Keeper_GeneratePrivateKey(k) ==
    IF k = defaultKeeper
    THEN {defaultPrivateKeyKeeper_GeneratePrivateKey(rnd) : rnd \in Entropy}
    ELSE CustomAnswers

Keeper_GetPublicKey(k, prvID) ==
    IF k = defaultKeeper
    THEN {defaultPrivateKeyKeeper_GetPublicKey(prvID)}
    ELSE CustomAnswers

Keeper_Sign(k, data, prvID) ==
    IF k = defaultKeeper
    THEN {defaultPrivateKeyKeeper_Sign(data, prvID)}
    ELSE CustomAnswers

\* ------------------------------------------------------------- secureSigner
\* one call made to a collaborator, with what it answered
Call(fn, on, args, resp) == [fn |-> fn, on |-> on, args |-> args, resp |-> resp]

\* the outcome of one operation: the calls it made, then what it returned,
\* or a nil dereference
Outcome(op, recv, args, calls, ret) ==
    [op |-> op, recv |-> recv, args |-> args, panic |-> FALSE,
     calls |-> calls, ret |-> ret]
NilDeref(op, recv, args, calls) ==
    [op |-> op, recv |-> recv, args |-> args, panic |-> TRUE,
     calls |-> calls, ret |-> Fail(NoErr)]

Pair(r) == [nil |-> r.nil, val |-> r.val, err |-> r.err]

NewSecureSigner(keeper) == [keeper |-> keeper]

DefaultSecureSigner == [keeper |-> defaultKeeper]

secureSigner_GenerateKey(sec) ==
    IF sec.keeper = NilKeeper
    THEN {NilDeref("GenerateKey", "secureSigner", <<>>, <<>>)}
    ELSE { Outcome("GenerateKey", "secureSigner", <<>>,
                   <<Call("GeneratePrivateKey", sec.keeper, <<>>, r)>>,
                   IF r.err # NoErr THEN Fail(r.err)
                   ELSE [nil |-> r.nil, val |-> r.val, err |-> NoErr])
           : r \in Keeper_GeneratePrivateKey(sec.keeper) }

\* variant: the keeper is handed a truncated identifier
secureSigner_GetPublicKey_Truncates(sec, prvID) ==
    IF sec.keeper = NilKeeper
    THEN {NilDeref("GetPublicKey", "secureSigner", <<prvID>>, <<>>)}
    ELSE { Outcome("GetPublicKey", "secureSigner", <<prvID>>,
                   <<Call("GetPublicKey", sec.keeper,
                          <<Bytes(prvID.len - 1, prvID.val)>>, r)>>,
                   IF r.err # NoErr THEN Fail(r.err)
                   ELSE [nil |-> r.nil, val |-> r.val, err |-> NoErr])
           : r \in Keeper_GetPublicKey(sec.keeper, Bytes(prvID.len - 1, prvID.val)) }

secureSigner_GetPublicKey(sec, prvID) ==
    IF sec.keeper = NilKeeper
    THEN {NilDeref("GetPublicKey", "secureSigner", <<prvID>>, <<>>)}
    ELSE { Outcome("GetPublicKey", "secureSigner", <<prvID>>,
                   <<Call("GetPublicKey", sec.keeper, <<prvID>>, r)>>,
                   IF r.err # NoErr THEN Fail(r.err)
                   ELSE [nil |-> r.nil, val |-> r.val, err |-> NoErr])
           : r \in Keeper_GetPublicKey(sec.keeper, prvID) }

\* variant: the keeper signs the payload, not the signing hash
secureSigner_Sign_SignsPayload(sec, tx, s, prvID) ==
    LET h     == Hash(s, tx)
        raw   == Bytes(DigestLength, tx.payload)
        hcall == Call("Hash", s, <<tx>>, h)
    IN  IF sec.keeper = NilKeeper
        THEN {NilDeref("Sign", "secureSigner", <<tx, s, prvID>>, <<hcall>>)}
        ELSE { LET kcall == Call("Sign", sec.keeper, <<raw, prvID>>, r)
               IN  IF r.err # NoErr
                   THEN Outcome("Sign", "secureSigner", <<tx, s, prvID>>,
                                <<hcall, kcall>>, TxFail(r.err))
                   ELSE LET w == WithSignature(tx, s, r.val)
                        IN  Outcome("Sign", "secureSigner", <<tx, s, prvID>>,
                                    <<hcall, kcall,
                                      Call("WithSignature", s, <<tx, r.val>>, w)>>,
                                    w)
               : r \in Keeper_Sign(sec.keeper, raw, prvID) }

\* variant: a failed keeper call is retried once
secureSigner_Sign_Retries(sec, tx, s, prvID) ==
    LET h     == Hash(s, tx)
        hcall == Call("Hash", s, <<tx>>, h)
    IN  IF sec.keeper = NilKeeper
        THEN {NilDeref("Sign", "secureSigner", <<tx, s, prvID>>, <<hcall>>)}
        ELSE UNION { IF r1.err = NoErr
                     THEN { LET w == WithSignature(tx, s, r1.val)
                            IN  Outcome("Sign", "secureSigner", <<tx, s, prvID>>,
                                        <<hcall,
                                          Call("Sign", sec.keeper, <<h, prvID>>, r1),
                                          Call("WithSignature", s, <<tx, r1.val>>, w)>>,
                                        w) }
                     ELSE { Outcome("Sign", "secureSigner", <<tx, s, prvID>>,
                                    <<hcall,
                                      Call("Sign", sec.keeper, <<h, prvID>>, r1),
                                      Call("Sign", sec.keeper, <<h, prvID>>, r2)>>,
                                    TxFail(r2.err))
                            : r2 \in Keeper_Sign(sec.keeper, h, prvID) }
                     : r1 \in Keeper_Sign(sec.keeper, h, prvID) }

secureSigner_Sign(sec, tx, s, prvID) ==
    LET h     == Hash(s, tx)
        hcall == Call("Hash", s, <<tx>>, h)
    IN  IF sec.keeper = NilKeeper
        THEN {NilDeref("Sign", "secureSigner", <<tx, s, prvID>>, <<hcall>>)}
        ELSE { LET kcall == Call("Sign", sec.keeper, <<h, prvID>>, r)
               IN  IF r.err # NoErr
                   THEN Outcome("Sign", "secureSigner", <<tx, s, prvID>>,
                                <<hcall, kcall>>, TxFail(r.err))
                   ELSE LET w == WithSignature(tx, s, r.val)
                        IN  Outcome("Sign", "secureSigner", <<tx, s, prvID>>,
                                    <<hcall, kcall,
                                      Call("WithSignature", s, <<tx, r.val>>, w)>>,
                                    w)
               : r \in Keeper_Sign(sec.keeper, h, prvID) }

\* --------------------------------------------------------------- SecureSign
SecureSign_SetKeeper(a, keeper) == [a EXCEPT !.keeper = keeper]

\* Sign of a single caller: the receiver after the call and the outcome
SecureSign_Sign(a, tx, s, prvID) ==
    LET a1    == IF a.keeper = NilKeeper
                 THEN [a EXCEPT !.keeper = defaultKeeper] ELSE a
        h     == Hash(s, tx)
        hcall == Call("Hash", s, <<tx>>, h)
    IN  { LET kcall == Call("Sign", a1.keeper, <<h, prvID>>, r)
          IN  [a   |-> a1,
               out |-> IF r.err # NoErr
                       THEN Outcome("Sign", "SecureSign", <<tx, s, prvID>>,
                                    <<hcall, kcall>>, TxFail(r.err))
                       ELSE LET w == WithSignature(tx, s, r.val)
                            IN  Outcome("Sign", "SecureSign", <<tx, s, prvID>>,
                                        <<hcall, kcall,
                                          Call("WithSignature", s, <<tx, r.val>>, w)>>,
                                        w)]
          : r \in Keeper_Sign(a1.keeper, h, prvID) }

\* -------------------------------------------------------------------- state
seqVars  == <<signer, secureSign, generated, pubSeen, last>>
concVars == <<word, pc, loc, started, defaultAssigns, installed>>
vars     == <<signer, secureSign, generated, pubSeen, last, crashed,
              word, pc, loc, started, defaultAssigns, installed>>

Threads == 1..NThreads

NoLast == Outcome("none", "none", <<>>, <<>>, Fail(NoErr))
Idle   == [op |-> "none", k |-> NilKeeper, first |-> "none",
           tab |-> NilKeeper, data |-> NilKeeper, callee |-> NilKeeper,
           after |-> "unset"]

Init ==
    /\ signer = DefaultSecureSigner
    /\ secureSign = [keeper |-> NilKeeper]  \* the zero value of SecureSign
    /\ generated = {}
    /\ pubSeen = {}
    /\ last = NoLast
    /\ crashed = FALSE
    /\ word = [tab |-> NilKeeper, data |-> NilKeeper]
    /\ pc = [t \in Threads |-> "idle"]
    /\ loc = [t \in Threads |-> Idle]
    /\ started = 0
    /\ defaultAssigns = 0
    /\ installed = "unset"

\* ------------------------------------------------------------------- inputs
ValidKey == Bytes(KeyLen, 1)
Malformed == {Bytes(10, 3), Bytes(KeyLen, 0), Bytes(KeyLen, CurveN), Bytes(33, 1)}
KeyInputs == generated \cup {ValidKey} \cup Malformed
\* identifiers handed to a signer, which only passes them on
SignerKeyInputs == generated \cup {ValidKey, Bytes(10, 3)}
Digests == {Bytes(DigestLength, v) : v \in 0..MaxDigest}
DataInputs == Digests \cup {Bytes(10, 1), NilBytes}
Txs == {Tx(p) : p \in 0..MaxPayload}

\* the default keeper's successful GeneratePrivateKey adds to generated
Generated(k, r) ==
    IF k = defaultKeeper /\ r.err = NoErr THEN generated \cup {r.val} ELSE generated

\* the default keeper's GetPublicKey on a generated identifier is recorded
\* with whether the identifier had been asked for before
PubSeen(k, prvID, r) ==
    IF k = defaultKeeper /\ prvID \in generated
    THEN pubSeen \cup {<<prvID, Pair(r), \E p \in pubSeen : p[1] = prvID>>}
    ELSE pubSeen

\* ------------------------------------------- actions of a single caller
\* defaultKeeper.GeneratePrivateKey()
KGeneratePrivateKey ==
    /\ ~crashed /\ Cardinality(generated) < MaxKeys
    /\ \E rnd \in Entropy :
         LET r == defaultPrivateKeyKeeper_GeneratePrivateKey(rnd)
         IN  /\ last' = Outcome("GeneratePrivateKey", defaultKeeper, <<>>, <<>>, r)
             /\ generated' = Generated(defaultKeeper, r)
    /\ UNCHANGED <<signer, secureSign, pubSeen, crashed>>
    /\ UNCHANGED concVars

\* defaultKeeper.GetPublicKey(prvID)
KGetPublicKey ==
    /\ ~crashed
    /\ \E prvID \in KeyInputs :
         LET r == defaultPrivateKeyKeeper_GetPublicKey(prvID)
         IN  /\ last' = Outcome("GetPublicKey", defaultKeeper, <<prvID>>, <<>>, r)
             /\ pubSeen' = PubSeen(defaultKeeper, prvID, r)
    /\ UNCHANGED <<signer, secureSign, generated, crashed>>
    /\ UNCHANGED concVars

\* defaultKeeper.Sign(data, prvID)
KSign ==
    /\ ~crashed
    /\ \E data \in DataInputs, prvID \in KeyInputs :
         last' = Outcome("Sign", defaultKeeper, <<data, prvID>>, <<>>,
                         defaultPrivateKeyKeeper_Sign(data, prvID))
    /\ UNCHANGED <<signer, secureSign, generated, pubSeen, crashed>>
    /\ UNCHANGED concVars

\* signer = NewSecureSigner(keeper), keeper possibly nil
DoNewSecureSigner ==
    /\ ~crashed
    /\ \E k \in Keepers \cup {NilKeeper} : signer' = NewSecureSigner(k)
    /\ last' = NoLast
    /\ UNCHANGED <<secureSign, generated, pubSeen, crashed>>
    /\ UNCHANGED concVars

\* signer = DefaultSecureSigner()
DoDefaultSecureSigner ==
    /\ ~crashed
    /\ signer' = DefaultSecureSigner
    /\ last' = NoLast
    /\ UNCHANGED <<secureSign, generated, pubSeen, crashed>>
    /\ UNCHANGED concVars

\* signer.GenerateKey()
SecGenerateKey ==
    /\ ~crashed /\ Cardinality(generated) < MaxKeys
    /\ \E o \in secureSigner_GenerateKey(signer) :
         /\ last' = o
         /\ crashed' = o.panic
         /\ generated' = IF o.panic THEN generated
                         ELSE Generated(signer.keeper, o.calls[1].resp)
    /\ UNCHANGED <<signer, secureSign, pubSeen>>
    /\ UNCHANGED concVars

\* signer.GetPublicKey(prvID)
SecGetPublicKey ==
    /\ ~crashed
    /\ \E prvID \in SignerKeyInputs :
         \E o \in secureSigner_GetPublicKey(signer, prvID) :
            /\ last' = o
            /\ crashed' = o.panic
            /\ pubSeen' = IF o.panic THEN pubSeen
                          ELSE PubSeen(signer.keeper, prvID, o.calls[1].resp)
    /\ UNCHANGED <<signer, secureSign, generated>>
    /\ UNCHANGED concVars

\* signer.Sign(tx, s, prvID)
SecSign ==
    /\ ~crashed
    /\ \E tx \in Txs, s \in SignerIds, prvID \in SignerKeyInputs :
         \E o \in secureSigner_Sign(signer, tx, s, prvID) :
            /\ last' = o
            /\ crashed' = o.panic
    /\ UNCHANGED <<signer, secureSign, generated, pubSeen>>
    /\ UNCHANGED concVars

\* secureSign.SetKeeper(keeper), keeper possibly nil
DoSetKeeper ==
    /\ ~crashed
    /\ \E k \in Keepers \cup {NilKeeper} : secureSign' = SecureSign_SetKeeper(secureSign, k)
    /\ last' = NoLast
    /\ UNCHANGED <<signer, generated, pubSeen, crashed>>
    /\ UNCHANGED concVars

\* secureSign.Sign(tx, s, prvID)
DoSecureSignSign ==
    /\ ~crashed
    /\ \E tx \in Txs, s \in SignerIds, prvID \in SignerKeyInputs :
         \E o \in SecureSign_Sign(secureSign, tx, s, prvID) :
            /\ secureSign' = o.a
            /\ last' = o.out
    /\ UNCHANGED <<signer, generated, pubSeen, crashed>>
    /\ UNCHANGED concVars

Next ==
    \/ KGeneratePrivateKey
    \/ KGetPublicKey
    \/ KSign
    \/ DoNewSecureSigner
    \/ DoDefaultSecureSigner
    \/ SecGenerateKey
    \/ SecGetPublicKey
    \/ SecSign
    \/ DoSetKeeper
    \/ DoSecureSignSign

Spec == Init /\ [][Next]_vars

\* ------------------------------- callers sharing one SecureSign, by statement
\* The keeper field is an interface value: a type word (tab) and a data word.
\* Unsynchronised callers store and load the two words one at a time.
OtherWord(w) == IF w = "tab" THEN "data" ELSE "tab"
Step(t, to) == pc' = [pc EXCEPT ![t] = to]

\* a caller enters a.Sign(tx, s, prvID)
StartSign(t) ==
    /\ ~crashed /\ pc[t] = "idle" /\ started < MaxCalls
    /\ started' = started + 1
    /\ loc' = [loc EXCEPT ![t] = [Idle EXCEPT !.op = "Sign", !.after = installed]]
    /\ Step(t, "check")
    /\ UNCHANGED <<word, defaultAssigns, installed, crashed>>
    /\ UNCHANGED seqVars

\* if a.keeper == nil
CheckNil(t) ==
    /\ ~crashed /\ pc[t] = "check"
    /\ IF word.tab = NilKeeper
       THEN /\ loc' = [loc EXCEPT ![t].k = defaultKeeper]
            /\ Step(t, "store1")
       ELSE /\ Step(t, "hash")
            /\ UNCHANGED loc
    /\ UNCHANGED <<word, started, defaultAssigns, installed, crashed>>
    /\ UNCHANGED seqVars

\* a caller enters a.SetKeeper(keeper), keeper possibly nil
StartSetKeeper(t) ==
    /\ ~crashed /\ pc[t] = "idle" /\ started < MaxCalls
    /\ started' = started + 1
    /\ \E k \in Keepers \cup {NilKeeper} :
         loc' = [loc EXCEPT ![t] = [Idle EXCEPT !.op = "SetKeeper", !.k = k]]
    /\ installed' = "none"
    /\ Step(t, "store1")
    /\ UNCHANGED <<word, defaultAssigns, crashed>>
    /\ UNCHANGED seqVars

\* a.keeper = ..., the word that reaches memory first
StoreFirst(t) ==
    /\ ~crashed /\ pc[t] = "store1"
    /\ \E w \in {"tab", "data"} :
         /\ word' = [word EXCEPT ![w] = loc[t].k]
         /\ loc' = [loc EXCEPT ![t].first = w]
    /\ Step(t, "store2")
    /\ UNCHANGED <<started, defaultAssigns, installed, crashed>>
    /\ UNCHANGED seqVars

\* a.keeper = ..., the other word; SetKeeper returns here
StoreSecond(t) ==
    /\ ~crashed /\ pc[t] = "store2"
    /\ word' = [word EXCEPT ![OtherWord(loc[t].first)] = loc[t].k]
    /\ IF loc[t].op = "Sign"
       THEN /\ defaultAssigns' = defaultAssigns + 1
            /\ Step(t, "hash")
            /\ UNCHANGED <<loc, installed>>
       ELSE /\ installed' =
                 IF \E u \in Threads \ {t} : loc[u].op = "SetKeeper"
                 THEN "none" ELSE loc[t].k
            /\ loc' = [loc EXCEPT ![t] = Idle]
            /\ Step(t, "idle")
            /\ UNCHANGED defaultAssigns
    /\ UNCHANGED <<started, crashed>>
    /\ UNCHANGED seqVars

\* h := s.Hash(tx), local to the caller
HashTx(t) ==
    /\ ~crashed /\ pc[t] = "hash"
    /\ Step(t, "loadtab")
    /\ UNCHANGED <<word, loc, started, defaultAssigns, installed, crashed>>
    /\ UNCHANGED seqVars

\* a.keeper.Sign(...): load of the type word
LoadTab(t) ==
    /\ ~crashed /\ pc[t] = "loadtab"
    /\ loc' = [loc EXCEPT ![t].tab = word.tab]
    /\ Step(t, "loaddata")
    /\ UNCHANGED <<word, started, defaultAssigns, installed, crashed>>
    /\ UNCHANGED seqVars

\* a.keeper.Sign(...): load of the data word
LoadData(t) ==
    /\ ~crashed /\ pc[t] = "loaddata"
    /\ loc' = [loc EXCEPT ![t].data = word.data]
    /\ Step(t, "call")
    /\ UNCHANGED <<word, started, defaultAssigns, installed, crashed>>
    /\ UNCHANGED seqVars

\* a.keeper.Sign(h[:], prvID): the method of the loaded type on the loaded
\* data.  A nil type word is a nil dereference.  The default keeper's methods
\* never touch their receiver; another type's method on a receiver that is not
\* its own is a corrupt call, which may crash or go on.
CallKeeper(t) ==
    /\ ~crashed /\ pc[t] = "call"
    /\ \/ /\ loc[t].tab = NilKeeper
          /\ crashed' = TRUE
          /\ Step(t, "dead")
          /\ UNCHANGED loc
       \/ /\ loc[t].tab # NilKeeper
          /\ loc[t].tab # defaultKeeper /\ loc[t].data # loc[t].tab
          /\ crashed' = TRUE
          /\ Step(t, "dead")
          /\ UNCHANGED loc
       \/ /\ loc[t].tab # NilKeeper
          /\ loc' = [loc EXCEPT ![t].callee = loc[t].tab]
          /\ Step(t, "attach")
          /\ UNCHANGED crashed
    /\ UNCHANGED <<word, started, defaultAssigns, installed>>
    /\ UNCHANGED seqVars

\* return tx.WithSignature(s, sig), or the keeper's error
Return(t) ==
    /\ ~crashed /\ pc[t] = "attach"
    /\ loc' = [loc EXCEPT ![t] = Idle]
    /\ Step(t, "idle")
    /\ UNCHANGED <<word, started, defaultAssigns, installed, crashed>>
    /\ UNCHANGED seqVars

NextConc ==
    \E t \in Threads :
        \/ StartSign(t)
        \/ CheckNil(t)
        \/ StartSetKeeper(t)
        \/ StoreFirst(t)
        \/ StoreSecond(t)
        \/ HashTx(t)
        \/ LoadTab(t)
        \/ LoadData(t)
        \/ CallKeeper(t)
        \/ Return(t)

SpecConc == Init /\ [][NextConc]_vars

\* ------------------------------------------------------------------- claims
IsSignerSign == /\ last.op = "Sign" /\ last.recv \in {"secureSigner", "SecureSign"}
                /\ ~last.panic
HeldKeeper == IF last.recv = "secureSigner" THEN signer.keeper ELSE secureSign.keeper
KeeperCalls == {i \in 1..Len(last.calls) : last.calls[i].fn = "Sign"}

\* C1: a successful Sign of either signer variant has computed h = s.Hash(tx),
\* then called the held keeper's Sign exactly once with exactly h and the
\* caller's keyID, then returned tx.WithSignature(s, sig) for the very sig the
\* keeper answered and the same signer s.
C1_SignSequence ==
    (IsSignerSign /\ last.ret.err = NoErr) =>
        LET tx == last.args[1]
            s  == last.args[2]
            id == last.args[3]
            c  == last.calls
        IN  /\ Len(c) = 3
            /\ c[1].fn = "Hash" /\ c[1].on = s /\ c[1].args = <<tx>>
            /\ c[1].resp = Hash(s, tx)
            /\ c[2].fn = "Sign" /\ c[2].on = HeldKeeper
            /\ c[2].args = <<Hash(s, tx), id>>
            /\ KeeperCalls = {2}
            /\ c[3].fn = "WithSignature" /\ c[3].on = s
            /\ c[3].args = <<tx, c[2].resp.val>>
            /\ last.ret = WithSignature(tx, s, c[2].resp.val)
            /\ last.ret.tx.sig = c[2].resp.val /\ last.ret.tx.chain = s

C1_Witness ==
    /\ IsSignerSign /\ last.ret.err = NoErr
    /\ last.recv = "secureSigner" /\ signer.keeper = defaultKeeper
    /\ last.args[3] \in generated

\* C2: an error of the keeper's Sign comes back as that very error with a nil
\* transaction, after one keeper call and no WithSignature; an error of
\* WithSignature comes back unchanged; an error of the keeper's
\* GeneratePrivateKey or GetPublicKey comes back as that very error with a
\* nil result.
C2_ErrorsUnchanged ==
    /\ (IsSignerSign /\ Len(last.calls) >= 2 /\ last.calls[2].resp.err # NoErr) =>
           /\ last.ret = TxFail(last.calls[2].resp.err)
           /\ Len(last.calls) = 2
           /\ KeeperCalls = {2}
    /\ (IsSignerSign /\ Len(last.calls) = 3 /\ last.calls[3].resp.err # NoErr) =>
           last.ret = last.calls[3].resp
    /\ (/\ last.op \in {"GenerateKey", "GetPublicKey"}
        /\ last.recv = "secureSigner" /\ ~last.panic
        /\ last.calls[1].resp.err # NoErr) =>
           last.ret = Fail(last.calls[1].resp.err)

C2_Witness ==
    /\ IsSignerSign /\ last.recv = "secureSigner"
    /\ last.calls[2].resp.err = ErrCustom /\ ~last.calls[2].resp.nil
    /\ last.ret.nil

IsKeeperCall(op) == last.recv = defaultKeeper /\ last.op = op

\* C3 as stated: for every valid identifier k and data d of any length, the
\* default keeper's Sign(d, k) succeeds and its signature verifies against
\* GetPublicKey(k) and d.
C3_AnyLength ==
    (IsKeeperCall("Sign") /\ crypto_ToECDSA(last.args[2]).ok) =>
        /\ last.ret.err = NoErr
        /\ crypto_VerifySignature(
               defaultPrivateKeyKeeper_GetPublicKey(last.args[2]).val,
               last.args[1], last.ret.val)

\* C3 amended: for every valid identifier k and every d of DigestLength
\* bytes, the default keeper's Sign(d, k) succeeds and its signature verifies
\* against GetPublicKey(k) and d.
C3_DigestRoundTrip ==
    (/\ IsKeeperCall("Sign") /\ crypto_ToECDSA(last.args[2]).ok
     /\ last.args[1].len = DigestLength) =>
        /\ last.ret.err = NoErr
        /\ crypto_VerifySignature(
               defaultPrivateKeyKeeper_GetPublicKey(last.args[2]).val,
               last.args[1], last.ret.val)

C3_Witness ==
    /\ IsKeeperCall("Sign") /\ last.args[2] \in generated
    /\ last.args[1].len = DigestLength /\ last.ret.err = NoErr

\* C5: no Sign, GenerateKey or GetPublicKey call of any signer, however it was
\* obtained, dereferences an absent keeper.
C5_NoAbsentKeeper == ~last.panic

\* C6: every identifier the default keeper generated is accepted by
\* GetPublicKey and by Sign of a digest: neither answers an
\* invalid-identifier error, whatever was done since.
C6_GeneratedAccepted ==
    /\ \A k \in generated :
          /\ defaultPrivateKeyKeeper_GetPublicKey(k).err \notin InvalidKeyIdentifier
          /\ \A h \in Digests :
                defaultPrivateKeyKeeper_Sign(h, k).err \notin InvalidKeyIdentifier
    /\ (IsKeeperCall("GetPublicKey") /\ last.args[1] \in generated) =>
          last.ret.err \notin InvalidKeyIdentifier
    /\ (/\ IsKeeperCall("Sign") /\ last.args[2] \in generated
        /\ last.args[1].len = DigestLength) =>
          last.ret.err \notin InvalidKeyIdentifier

C6_Witness ==
    /\ IsKeeperCall("GetPublicKey") /\ last.args[1] \in generated
    /\ last.ret.err = NoErr /\ pubSeen # {}

IsMalformed(k) == k.len # KeyLen \/ k.val <= 0 \/ k.val >= CurveN

\* C7: on a malformed identifier the default keeper's GetPublicKey and Sign
\* answer an InvalidKeyIdentifier error and a nil result, having made no
\* crypto call but the parse.
C7_MalformedRejected ==
    /\ (IsKeeperCall("GetPublicKey") /\ IsMalformed(last.args[1])) =>
          /\ last.ret.err \in InvalidKeyIdentifier
          /\ last.ret.nil /\ last.ret.lib = <<"ToECDSA">>
    /\ (IsKeeperCall("Sign") /\ IsMalformed(last.args[2])) =>
          /\ last.ret.err \in InvalidKeyIdentifier
          /\ last.ret.nil /\ last.ret.lib = <<"ToECDSA">>

C7_Witness ==
    /\ IsKeeperCall("GetPublicKey") /\ last.args[1] = Bytes(10, 3)
    /\ last.ret.err = ErrKeyLength

IsForward == /\ last.op \in {"GenerateKey", "GetPublicKey"}
             /\ last.recv = "secureSigner" /\ ~last.panic

\* C9 as stated: GenerateKey and GetPublicKey of the signer make exactly one
\* call to the held keeper, with the argument unmodified, and return exactly
\* what the keeper answered.
C9_ExactForward ==
    IsForward =>
        /\ Len(last.calls) = 1
        /\ last.calls[1].on = signer.keeper
        /\ last.calls[1].args = last.args
        /\ last.ret = Pair(last.calls[1].resp)

\* C9 amended: they make exactly one call to the held keeper, with the
\* argument unmodified, and return exactly what the keeper answered when it
\* answered no error, and a nil result with the keeper's error otherwise.
C9_Forward ==
    IsForward =>
        /\ Len(last.calls) = 1
        /\ last.calls[1].on = signer.keeper
        /\ last.calls[1].args = last.args
        /\ last.ret = IF last.calls[1].resp.err = NoErr
                      THEN Pair(last.calls[1].resp)
                      ELSE Fail(last.calls[1].resp.err)

C9_Witness ==
    /\ IsForward /\ last.op = "GetPublicKey" /\ signer.keeper = CustomKeeper
    /\ last.ret.err = NoErr /\ ~last.ret.nil

\* C4: concurrent Sign calls on one shared signer with no keeper set all
\* delegate to the default keeper, and the default keeper is assigned to the
\* keeper field at most once, in every interleaving.
C4_AssignedOnce ==
    installed = "unset" =>
        /\ defaultAssigns <= 1
        /\ ~crashed
        /\ \A t \in Threads : pc[t] = "attach" => loc[t].callee = defaultKeeper

\* C10: once SetKeeper(k), k not nil, has returned and no later SetKeeper is
\* called, the keeper field stays k and every Sign started afterwards
\* delegates to k, whatever Sign calls were under way.
C10_SetKeeperSticks ==
    installed \in Keepers =>
        /\ word = [tab |-> installed, data |-> installed]
        /\ \A t \in Threads :
              (pc[t] = "attach" /\ loc[t].after = installed) =>
                  loc[t].callee = installed
====
